---- MODULE Spec2Model ----
(***************************************************************************)
(* Model of dbs/helper_functions.py: retry_with_backoff (Spec, FairSpec)   *)
(* and get_ndaq_tickers (SpecTickers); SpecConc runs two calls of          *)
(* retry_with_backoff on two threads.                                      *)
(*                                                                         *)
(* One call of retry_with_backoff is modelled as a sequential process      *)
(* whose position is pc.  The collaborators are modelled by what the call  *)
(* does to them: calls is the list of results of the invocations of func,  *)
(* raw_delays the values line 53 assigns to delay, sleeps the list of      *)
(* time.sleep calls, log_records what the logger received, stdout what     *)
(* print received, outcome what the caller gets.                           *)
(*                                                                         *)
(* Durations are exact rationals [num, den] (seconds): random.random() is  *)
(* drawn from the grid k / RandomSteps, k in 0 .. RandomSteps - 1, so      *)
(* delay * (0.5 + random()/2) = delay * (RandomSteps + k) / (2*RandomSteps)*)
(***************************************************************************)
EXTENDS Integers, Sequences, FiniteSets, TLC

\* ---------------------------------------------------------------- bounds
\* largest max_retries a caller passes (the smallest is -1)
MaxRetriesBound == 5
\* number of grid points of random.random() in [0, 1)
RandomSteps == 3

\* ---------------------------------------------------------------- inputs
\* (base_delay, max_delay) arguments, in seconds: the defaults, a pair that
\* clamps from the second delay on, and a pair with max_delay < base_delay
Delays == {<<1, 30>>, <<10, 15>>, <<10, 4>>}
\* the exceptions argument, a tuple of exception classes, as a set: the
\* default, a superclass of ConnectionError, and an unrelated class
ExceptionFilters == {{"Exception"}, {"OSError"}, {"ValueError"}}
\* classes of the exceptions func raises
RaisedClasses == {"ConnectionError", "KeyboardInterrupt"}
\* values func returns (None and 0 are falsy)
ReturnValues == {"None", "0", "data"}
\* the logger argument: None or a logger object
Loggers == {"None", "Logger"}
\* the func argument: functions, each with a __name__
Funcs == {"fetch_data"}

VARIABLES
    func, logger, max_retries, base_delay, max_delay, exceptions, jitter,
    pc, func_name, attempt, e, delay, msg,
    calls, raw_delays, sleeps, log_records, stdout, outcome,
    \* get_ndaq_tickers: what the network and the parser do (tk_env), the
    \* cells of the page's wikitable tables (tk_page), the position in the
    \* function, its locals tickers and e, what it printed and returned
    tk_env, tk_page, tk_pc, tk_tickers, tk_e, tk_stdout, tk_result,
    \* two threads each calling retry_with_backoff: per thread the
    \* parameters max_retries and exceptions, the position, what func did
    \* in its calls, the number of sleeps and the outcome; per call frame
    \* the locals attempt, e and delay; shared by the threads, the state of
    \* the random module's generator and the number of lines on stdout
    c_max_retries, c_exceptions, c_pc, c_calls, c_sleeps, c_outcome,
    c_attempt, c_e, c_delay, c_rng, c_lines

params == <<func, logger, max_retries, base_delay, max_delay, exceptions, jitter>>
locals == <<func_name, attempt, e, delay, msg>>
effects == <<calls, raw_delays, sleeps, log_records, stdout>>
scrape == <<tk_env, tk_page, tk_pc, tk_tickers, tk_e, tk_stdout, tk_result>>
conc == <<c_max_retries, c_exceptions, c_pc, c_calls, c_sleeps, c_outcome,
          c_attempt, c_e, c_delay, c_rng, c_lines>>
others == <<scrape, conc>>
vars == <<params, pc, locals, effects, outcome, others>>

\* ------------------------------------------------------------- helpers
Min(a, b) == IF a <= b THEN a ELSE b

\* Python's class hierarchy of the exception classes used here
Base(c) ==
    CASE c = "ConnectionError" -> "OSError"
      [] c = "Timeout" -> "RequestException"
      [] c = "HTTPError" -> "RequestException"
      [] c = "RequestException" -> "OSError"
      [] c = "ParserRejectedMarkup" -> "Exception"
      [] c = "OSError" -> "Exception"
      [] c = "ValueError" -> "Exception"
      [] c = "Exception" -> "BaseException"
      [] c = "KeyboardInterrupt" -> "BaseException"
      [] OTHER -> "object"

RECURSIVE Mro(_)
Mro(c) == IF c = "object" THEN {} ELSE {c} \cup Mro(Base(c))

NoExc == [cls |-> "object", id |-> 0]
NoMsg == [template |-> "none"]
NoDelay == [num |-> 0, den |-> 1]
NoOutcome == [kind |-> "none"]

\* isinstance(exc, classes) for a tuple of classes
IsInstance(exc, classes) == \E c \in classes : c \in Mro(exc.cls)

\* `except exceptions as e`: the clause catches exc iff it is an instance of
\* one of the classes of the tuple
CaughtAny(exc, classes) == TRUE
Caught(exc, classes) == IsInstance(exc, classes)

\* `while attempt <= max_retries`
LoopCondStrict(a, m) == a < m
LoopCond(a, m) == a <= m

\* `if attempt == max_retries`
IsLastAttemptLate(a, m) == a = m + 1
IsLastAttempt(a, m) == a = m

\* `min(max_delay, base_delay * (2**attempt))`
RawDelayUnclamped(a, base, max) == base * (2 ^ a)
RawDelayLinear(a, base, max) == Min(max, base * (a + 1))
RawDelay(a, base, max) == Min(max, base * (2 ^ a))

\* `delay * (0.5 + random.random() / 2)` with random.random() = k / RandomSteps
JitterFull(raw, k) == [num |-> raw * k, den |-> RandomSteps]
Jitter(raw, k) == [num |-> raw * (RandomSteps + k), den |-> 2 * RandomSteps]

\* the delay slept: `if jitter: delay = delay * (...)`
ComputeDelay(raw, jit, k) == IF jit THEN Jitter(raw, k) ELSE [num |-> raw, den |-> 1]

\* `{delay:.2f}`: the delay in hundredths of a second, rounded half to even
Format2f(d) ==
    LET n == d.num * 100
        q == n \div d.den
        r == n % d.den
    IN  IF 2 * r > d.den \/ (2 * r = d.den /\ q % 2 = 1) THEN q + 1 ELSE q

\* `if logger:`
UseLoggerNever(l) == FALSE
UseLogger(l) == l # "None"

\* the two f-strings
MaxRetriesMsg(name, exc) ==
    [template |-> "Max retries reached", func_name |-> name, exc |-> exc]
RetryMsg(name, a, exc, d) ==
    [template |-> "Retrying", attempt_no |-> a + 1, func_name |-> name,
     exc |-> exc, delay_text |-> Format2f(d)]

\* ------------------------------------------------- get_ndaq_tickers
\* `len(tickers) >= 80 and len(tickers) <= 120`
MinTickers == 80
MaxTickers == 120
\* `len(text) <= 5`
MaxTickerLen == 5

\* ticker symbols of a page: Sym(0), Sym(1), ... in alphabetical order
Letters == <<"A", "B", "C", "D", "E", "F", "G", "H", "I", "J", "K", "L", "M",
             "N", "O", "P", "Q", "R", "S", "T", "U", "V", "W", "X", "Y", "Z">>
Sym(i) == "Q" \o Letters[(i \div 26) + 1] \o Letters[(i % 26) + 1]
\* numbers of distinct symbols on the pages considered
SymbolCounts == {0, 60, 79, 80, 100, 120, 121}
AllSyms == {Sym(i) : i \in 0 .. 121}
Code(text) == CHOOSE i \in 0 .. 121 : Sym(i) = text

\* a cell's text with what str.isupper, str.isalpha and len say about it
TickerCell(i) == [text |-> Sym(i), len |-> 3, isupper |-> TRUE, isalpha |-> TRUE]
NoiseCells ==
    <<[text |-> "Ticker", len |-> 6, isupper |-> FALSE, isalpha |-> TRUE],
      [text |-> "NAME", len |-> 4, isupper |-> TRUE, isalpha |-> TRUE],
      [text |-> "", len |-> 0, isupper |-> FALSE, isalpha |-> FALSE],
      [text |-> "GOOGLE", len |-> 6, isupper |-> TRUE, isalpha |-> TRUE],
      [text |-> "BRK.B", len |-> 5, isupper |-> TRUE, isalpha |-> FALSE],
      [text |-> "Apple", len |-> 5, isupper |-> FALSE, isalpha |-> TRUE],
      [text |-> "WEIGHT", len |-> 6, isupper |-> TRUE, isalpha |-> TRUE]>>

\* a page with n distinct symbols, each in dup cells, in reverse alphabetical
\* order, after the noise cells when noise is set
Page(n, dup, noise) ==
    (IF noise THEN NoiseCells ELSE <<>>)
        \o [j \in 1 .. n * dup |-> TickerCell(n - 1 - ((j - 1) % n))]

\* lines 102-104: the test a cell's text passes to be taken as a ticker
Denylist == {"TICKER", "SYMBOL", "COMPANY", "NAME", "WEIGHT"}
IsTickerText(cell) ==
    /\ cell.text # "" /\ cell.len <= MaxTickerLen
    /\ cell.isupper /\ cell.isalpha
    /\ cell.text \notin Denylist

\* lines 95-105: the texts taken, in page order
Collect(cells) ==
    LET taken == SelectSeq(cells, IsTickerText)
    IN  [j \in 1 .. Len(taken) |-> taken[j].text]

\* line 108: sorted(list(set(tickers)))
SortCodes(S) ==
    [j \in 1 .. Cardinality(S) |->
        CHOOSE x \in S : Cardinality({y \in S : y <= x}) = j]
SortedSet(list) ==
    LET sorted == SortCodes({Code(list[j]) : j \in 1 .. Len(list)})
    IN  [j \in 1 .. Len(sorted) |-> Sym(sorted[j])]

\* line 111
CountAcceptedStrict(n) == n > MinTickers /\ n < MaxTickers
CountAccepted(n) == n >= MinTickers /\ n <= MaxTickers

\* lines 134-144: get_ndaq_tickers_fallback()
NdaqFallback ==
    <<"AAPL", "MSFT", "GOOGL", "GOOG", "AMZN", "NVDA", "META", "TSLA", "NFLX", "ADBE",
      "CRM", "PEP", "COST", "AVGO", "CSCO", "TMUS", "INTC", "AMD", "QCOM", "INTU",
      "HON", "ISRG", "GILD", "MDLZ", "ADP", "PYPL", "REGN", "VRTX", "ABNB", "KLAC",
      "SNPS", "PANW", "CDNS", "MU", "ORLY", "MNST", "KDP", "LRCX", "ASML", "CHTR",
      "MAR", "MELI", "FTNT", "CTAS", "ODFL", "PAYX", "ROST", "IDXX", "BIIB", "FAST",
      "VRSK", "WDAY", "DXCM", "CPRT", "XEL", "PCAR", "ALGN", "SIRI", "MRVL", "ZS",
      "LCID", "JD", "PDD", "BIDU", "NTES", "TCOM", "WBA", "EA", "UBER",
      "LYFT", "DASH", "RIVN", "PLTR", "SNOW", "CRWD", "OKTA", "TEAM", "SPOT",
      "PINS", "SNAP", "BYND", "PTON", "DOCU", "RBLX", "ZM">>

\* what requests.get, raise_for_status and BeautifulSoup may do
TkEnvs == {"ok", "Timeout", "HTTPError", "ParserRejectedMarkup"}

\* no call of get_ndaq_tickers is running
ScrapeIdle ==
    /\ tk_env = "ok"
    /\ tk_page = <<>>
    /\ tk_pc = "idle"
    /\ tk_tickers = <<>>
    /\ tk_e = NoExc
    /\ tk_stdout = <<>>
    /\ tk_result = NoOutcome

\* ------------------------------------------------------- two threads
ConcMaxRetries == 2
Threads == 1 .. 2

\* the frame holding the locals of thread t's call: each call has its own
FrameShared(t) == 1
Frame(t) == t

\* no thread is calling retry_with_backoff
ConcIdle ==
    /\ c_max_retries = [t \in Threads |-> 0]
    /\ c_exceptions = [t \in Threads |-> {"Exception"}]
    /\ c_pc = [t \in Threads |-> "idle"]
    /\ c_calls = [t \in Threads |-> <<>>]
    /\ c_sleeps = [t \in Threads |-> 0]
    /\ c_outcome = [t \in Threads |-> NoOutcome]
    /\ c_attempt = [t \in Threads |-> 0]
    /\ c_e = [t \in Threads |-> NoExc]
    /\ c_delay = [t \in Threads |-> NoDelay]
    /\ c_rng = 0
    /\ c_lines = 0

\* ---------------------------------------------------------------- Init
Init ==
    /\ ScrapeIdle
    /\ ConcIdle
    /\ func \in Funcs
    /\ logger \in Loggers
    /\ max_retries \in -1 .. MaxRetriesBound
    /\ \E d \in Delays : base_delay = d[1] /\ max_delay = d[2]
    /\ exceptions \in ExceptionFilters
    /\ jitter \in BOOLEAN
    /\ pc = "ready"
    /\ func_name = ""
    /\ attempt = 0
    /\ e = NoExc
    /\ delay = NoDelay
    /\ msg = NoMsg
    /\ calls = <<>>
    /\ raw_delays = <<>>
    /\ sleeps = <<>>
    /\ log_records = <<>>
    /\ stdout = <<>>
    /\ outcome = NoOutcome

\* ------------------------------------------------------------- actions
\* lines 38-39: func_name = func.__name__; attempt = 0
Start ==
    /\ pc = "ready"
    /\ func_name' = func
    /\ attempt' = 0
    /\ pc' = "while"
    /\ UNCHANGED <<others, params, e, delay, msg, effects, outcome>>

\* line 40, condition true: enter the loop body
LoopEnter ==
    /\ pc = "while"
    /\ LoopCond(attempt, max_retries)
    /\ pc' = "call"
    /\ UNCHANGED <<others, params, locals, effects, outcome>>

\* line 40, condition false: the function ends without a return statement
LoopExit ==
    /\ pc = "while"
    /\ ~LoopCond(attempt, max_retries)
    /\ pc' = "done"
    /\ outcome' = [kind |-> "return", val |-> "None", line |-> 65]
    /\ UNCHANGED <<others, params, locals, effects>>

\* line 42: func() returns a value, which is returned to the caller
CallReturnsTruthyOnly ==
    /\ pc = "call"
    /\ \E v \in ReturnValues :
        /\ calls' = Append(calls, [kind |-> "return", val |-> v])
        /\ IF v \in {"None", "0"}
             THEN /\ pc' = "incr"
                  /\ outcome' = outcome
             ELSE /\ pc' = "done"
                  /\ outcome' = [kind |-> "return", val |-> v, line |-> 42]
    /\ UNCHANGED <<others, params, locals, raw_delays, sleeps, log_records, stdout>>

CallReturns ==
    /\ pc = "call"
    /\ \E v \in ReturnValues :
        /\ calls' = Append(calls, [kind |-> "return", val |-> v])
        /\ outcome' = [kind |-> "return", val |-> v, line |-> 42]
    /\ pc' = "done"
    /\ UNCHANGED <<others, params, locals, raw_delays, sleeps, log_records, stdout>>

\* line 42: func() raises; a fresh exception object per invocation
CallRaises ==
    /\ pc = "call"
    /\ \E c \in RaisedClasses :
        LET exc == [cls |-> c, id |-> Len(calls) + 1] IN
        /\ calls' = Append(calls, [kind |-> "raise", exc |-> exc])
        /\ e' = exc
    /\ pc' = "except"
    /\ UNCHANGED <<others, params, func_name, attempt, delay, msg, raw_delays, sleeps,
                   log_records, stdout, outcome>>

\* line 43: the except clause does not match; the exception propagates
PropagateLogged ==
    /\ pc = "except"
    /\ ~Caught(e, exceptions)
    /\ pc' = "done"
    /\ outcome' = [kind |-> "raise", exc |-> e, line |-> 42]
    /\ msg' = MaxRetriesMsg(func_name, e)
    /\ IF UseLogger(logger)
         THEN /\ log_records' = Append(log_records, [level |-> "error", msg |-> msg'])
              /\ stdout' = stdout
         ELSE /\ stdout' = Append(stdout, msg')
              /\ log_records' = log_records
    /\ UNCHANGED <<others, params, func_name, attempt, e, delay, calls, raw_delays, sleeps>>

Propagate ==
    /\ pc = "except"
    /\ ~Caught(e, exceptions)
    /\ pc' = "done"
    /\ outcome' = [kind |-> "raise", exc |-> e, line |-> 42]
    /\ UNCHANGED <<others, params, locals, effects>>

\* lines 44-50: last attempt failed; the message goes to logger.error or print
LogExhaustedSilent ==
    /\ pc = "except"
    /\ Caught(e, exceptions)
    /\ IsLastAttempt(attempt, max_retries)
    /\ msg' = MaxRetriesMsg(func_name, e)
    /\ pc' = "reraise"
    /\ UNCHANGED <<others, params, func_name, attempt, e, delay, effects, outcome>>

LogExhausted ==
    /\ pc = "except"
    /\ Caught(e, exceptions)
    /\ IsLastAttempt(attempt, max_retries)
    /\ msg' = MaxRetriesMsg(func_name, e)
    /\ IF UseLogger(logger)
         THEN /\ log_records' = Append(log_records, [level |-> "error", msg |-> msg'])
              /\ stdout' = stdout
         ELSE /\ stdout' = Append(stdout, msg')
              /\ log_records' = log_records
    /\ pc' = "reraise"
    /\ UNCHANGED <<others, params, func_name, attempt, e, delay, calls, raw_delays, sleeps,
                   outcome>>

\* line 51: bare raise re-raises the caught exception
ReraiseSwallowed ==
    /\ pc = "reraise"
    /\ pc' = "done"
    /\ outcome' = [kind |-> "return", val |-> "None", line |-> 51]
    /\ UNCHANGED <<others, params, locals, effects>>

Reraise ==
    /\ pc = "reraise"
    /\ pc' = "done"
    /\ outcome' = [kind |-> "raise", exc |-> e, line |-> 51]
    /\ UNCHANGED <<others, params, locals, effects>>

\* lines 53-63: compute the delay; the message goes to logger.warning or print
LogRetry ==
    /\ pc = "except"
    /\ Caught(e, exceptions)
    /\ ~IsLastAttempt(attempt, max_retries)
    /\ LET raw == RawDelay(attempt, base_delay, max_delay) IN
        /\ raw_delays' = Append(raw_delays, raw)
        /\ \E k \in 0 .. RandomSteps - 1 : delay' = ComputeDelay(raw, jitter, k)
    /\ msg' = RetryMsg(func_name, attempt, e, delay')
    /\ IF UseLogger(logger)
         THEN /\ log_records' = Append(log_records, [level |-> "warning", msg |-> msg'])
              /\ stdout' = stdout
         ELSE /\ stdout' = Append(stdout, msg')
              /\ log_records' = log_records
    /\ pc' = "sleep"
    /\ UNCHANGED <<others, params, func_name, attempt, e, calls, sleeps, outcome>>

\* line 64: time.sleep(delay)
SleepSkipped ==
    /\ pc = "sleep"
    /\ pc' = "incr"
    /\ UNCHANGED <<others, params, locals, effects, outcome>>

Sleep ==
    /\ pc = "sleep"
    /\ sleeps' = Append(sleeps, [attempt |-> attempt, after |-> Len(calls),
                                 delay |-> delay])
    /\ pc' = "incr"
    /\ UNCHANGED <<others, params, locals, calls, raw_delays, log_records, stdout, outcome>>

\* line 65: attempt += 1
IncrementTwice ==
    /\ pc = "incr"
    /\ attempt' = attempt + 2
    /\ pc' = "while"
    /\ UNCHANGED <<others, params, func_name, e, delay, msg, effects, outcome>>

Increment ==
    /\ pc = "incr"
    /\ attempt' = attempt + 1
    /\ pc' = "while"
    /\ UNCHANGED <<others, params, func_name, e, delay, msg, effects, outcome>>

Next ==
    \/ Start
    \/ LoopEnter
    \/ LoopExit
    \/ CallReturns
    \/ CallRaises
    \/ Propagate
    \/ LogExhausted
    \/ Reraise
    \/ LogRetry
    \/ Sleep
    \/ Increment

Spec == Init /\ [][Next]_vars

\* ------------------------------------------- get_ndaq_tickers: actions
\* no call of retry_with_backoff is running
RetryIdle ==
    /\ func = "fetch_data" /\ logger = "None" /\ max_retries = 0
    /\ base_delay = 1 /\ max_delay = 30 /\ exceptions = {"Exception"}
    /\ jitter = FALSE
    /\ pc = "idle" /\ func_name = "" /\ attempt = 0 /\ e = NoExc
    /\ delay = NoDelay /\ msg = NoMsg
    /\ calls = <<>> /\ raw_delays = <<>> /\ sleeps = <<>>
    /\ log_records = <<>> /\ stdout = <<>> /\ outcome = NoOutcome

retry == <<params, pc, locals, effects, outcome>>

InitTickers ==
    /\ RetryIdle
    /\ ConcIdle
    /\ tk_env \in TkEnvs
    /\ \E n \in SymbolCounts, dup \in 1 .. 2, noise \in BOOLEAN :
          tk_page = Page(n, dup, noise)
    /\ tk_pc = "get"
    /\ tk_tickers = <<>>
    /\ tk_e = NoExc
    /\ tk_stdout = <<>>
    /\ tk_result = NoOutcome

\* lines 85-86: requests.get or raise_for_status raises
TkFetchRaises ==
    /\ tk_pc = "get"
    /\ tk_env \in {"Timeout", "HTTPError"}
    /\ tk_e' = [cls |-> tk_env, id |-> 1]
    /\ tk_pc' = "except"
    /\ UNCHANGED <<retry, conc, tk_env, tk_page, tk_tickers, tk_stdout, tk_result>>

\* lines 85-86: the response arrives with a success status
TkFetchOk ==
    /\ tk_pc = "get"
    /\ tk_env \notin {"Timeout", "HTTPError"}
    /\ tk_pc' = "parse"
    /\ UNCHANGED <<retry, conc, tk_env, tk_page, tk_tickers, tk_e, tk_stdout, tk_result>>

\* line 88: BeautifulSoup raises
TkParseRaises ==
    /\ tk_pc = "parse"
    /\ tk_env = "ParserRejectedMarkup"
    /\ tk_e' = [cls |-> tk_env, id |-> 1]
    /\ tk_pc' = "except"
    /\ UNCHANGED <<retry, conc, tk_env, tk_page, tk_tickers, tk_stdout, tk_result>>

\* lines 88-105: collect the ticker-like cell texts
TkCollect ==
    /\ tk_pc = "parse"
    /\ tk_env = "ok"
    /\ tk_tickers' = Collect(tk_page)
    /\ tk_pc' = "dedup"
    /\ UNCHANGED <<retry, conc, tk_env, tk_page, tk_e, tk_stdout, tk_result>>

\* line 108: tickers = sorted(list(set(tickers)))
TkDedupSort ==
    /\ tk_pc = "dedup"
    /\ tk_tickers' = SortedSet(tk_tickers)
    /\ tk_pc' = "validate"
    /\ UNCHANGED <<retry, conc, tk_env, tk_page, tk_e, tk_stdout, tk_result>>

\* lines 111-113: the count is plausible; return the scraped list
TkAccept ==
    /\ tk_pc = "validate"
    /\ CountAccepted(Len(tk_tickers))
    /\ tk_stdout' = Append(tk_stdout, [template |-> "Successfully scraped",
                                       count |-> Len(tk_tickers)])
    /\ tk_result' = [kind |-> "return", val |-> tk_tickers]
    /\ tk_pc' = "done"
    /\ UNCHANGED <<retry, conc, tk_env, tk_page, tk_tickers, tk_e>>

\* lines 114-116: the count is implausible; return the fallback list
TkRejectCount ==
    /\ tk_pc = "validate"
    /\ ~CountAccepted(Len(tk_tickers))
    /\ tk_stdout' = Append(tk_stdout, [template |-> "Warning: Got",
                                       count |-> Len(tk_tickers)])
    /\ tk_result' = [kind |-> "return", val |-> NdaqFallback]
    /\ tk_pc' = "done"
    /\ UNCHANGED <<retry, conc, tk_env, tk_page, tk_tickers, tk_e>>

\* lines 118-121: except Exception: two prints, return the fallback list
TkHandle ==
    /\ tk_pc = "except"
    /\ Caught(tk_e, {"Exception"})
    /\ tk_stdout' = tk_stdout \o <<[template |-> "Error scraping", exc |-> tk_e],
                                   [template |-> "Using fallback"]>>
    /\ tk_result' = [kind |-> "return", val |-> NdaqFallback]
    /\ tk_pc' = "done"
    /\ UNCHANGED <<retry, conc, tk_env, tk_page, tk_tickers, tk_e>>

NextTickers ==
    \/ TkFetchRaises
    \/ TkFetchOk
    \/ TkParseRaises
    \/ TkCollect
    \/ TkDedupSort
    \/ TkAccept
    \/ TkRejectCount
    \/ TkHandle

SpecTickers == InitTickers /\ [][NextTickers]_vars

\* ------------------------------------- two threads: actions of thread t
\* Both calls take func_name from func, logger = None, base_delay = 1,
\* max_delay = 30 and jitter = True (the defaults of lines 12-15).
ConcFilters == {{"Exception"}, {"ValueError"}}

InitConc ==
    /\ RetryIdle
    /\ ScrapeIdle
    /\ c_max_retries \in [Threads -> -1 .. ConcMaxRetries]
    /\ c_exceptions \in [Threads -> ConcFilters]
    /\ c_pc = [t \in Threads |-> "ready"]
    /\ c_calls = [t \in Threads |-> <<>>]
    /\ c_sleeps = [t \in Threads |-> 0]
    /\ c_outcome = [t \in Threads |-> NoOutcome]
    /\ c_attempt = [t \in Threads |-> 0]
    /\ c_e = [t \in Threads |-> NoExc]
    /\ c_delay = [t \in Threads |-> NoDelay]
    /\ c_rng \in 0 .. RandomSteps - 1
    /\ c_lines = 0

seq_and_scrape == <<retry, scrape>>

\* lines 38-39: attempt = 0
TStart(t) ==
    /\ c_pc[t] = "ready"
    /\ c_attempt' = [c_attempt EXCEPT ![Frame(t)] = 0]
    /\ c_pc' = [c_pc EXCEPT ![t] = "while"]
    /\ UNCHANGED <<seq_and_scrape, c_max_retries, c_exceptions, c_calls,
                   c_sleeps, c_outcome, c_e, c_delay, c_rng, c_lines>>

\* line 40: while attempt <= max_retries, true
TLoopEnter(t) ==
    /\ c_pc[t] = "while"
    /\ LoopCond(c_attempt[Frame(t)], c_max_retries[t])
    /\ c_pc' = [c_pc EXCEPT ![t] = "call"]
    /\ UNCHANGED <<seq_and_scrape, c_max_retries, c_exceptions, c_calls,
                   c_sleeps, c_outcome, c_attempt, c_e, c_delay, c_rng, c_lines>>

\* line 40 false: the function ends, returning None
TLoopExit(t) ==
    /\ c_pc[t] = "while"
    /\ ~LoopCond(c_attempt[Frame(t)], c_max_retries[t])
    /\ c_outcome' = [c_outcome EXCEPT
                        ![t] = [kind |-> "return", val |-> "None", line |-> 65]]
    /\ c_pc' = [c_pc EXCEPT ![t] = "done"]
    /\ UNCHANGED <<seq_and_scrape, c_max_retries, c_exceptions, c_calls,
                   c_sleeps, c_attempt, c_e, c_delay, c_rng, c_lines>>

\* line 42: return func()
TCallReturns(t) ==
    /\ c_pc[t] = "call"
    /\ \E v \in ReturnValues :
        /\ c_calls' = [c_calls EXCEPT
                          ![t] = Append(@, [kind |-> "return", val |-> v])]
        /\ c_outcome' = [c_outcome EXCEPT
                            ![t] = [kind |-> "return", val |-> v, line |-> 42]]
    /\ c_pc' = [c_pc EXCEPT ![t] = "done"]
    /\ UNCHANGED <<seq_and_scrape, c_max_retries, c_exceptions, c_sleeps,
                   c_attempt, c_e, c_delay, c_rng, c_lines>>

\* lines 42-43: func() raises; e is bound in the call's frame
TCallRaises(t) ==
    /\ c_pc[t] = "call"
    /\ \E cls \in RaisedClasses :
        LET exc == [cls |-> cls, thread |-> t, id |-> Len(c_calls[t]) + 1] IN
        /\ c_calls' = [c_calls EXCEPT
                          ![t] = Append(@, [kind |-> "raise", exc |-> exc])]
        /\ c_e' = [c_e EXCEPT ![Frame(t)] = exc]
    /\ c_pc' = [c_pc EXCEPT ![t] = "except"]
    /\ UNCHANGED <<seq_and_scrape, c_max_retries, c_exceptions, c_sleeps,
                   c_outcome, c_attempt, c_delay, c_rng, c_lines>>

\* line 43 does not match: the exception of this call of func propagates
TPropagate(t) ==
    /\ c_pc[t] = "except"
    /\ ~Caught(c_calls[t][Len(c_calls[t])].exc, c_exceptions[t])
    /\ c_outcome' = [c_outcome EXCEPT
                        ![t] = [kind |-> "raise",
                                exc |-> c_calls[t][Len(c_calls[t])].exc,
                                line |-> 42]]
    /\ c_pc' = [c_pc EXCEPT ![t] = "done"]
    /\ UNCHANGED <<seq_and_scrape, c_max_retries, c_exceptions, c_calls,
                   c_sleeps, c_attempt, c_e, c_delay, c_rng, c_lines>>

\* lines 44-50: last attempt; the message goes to stdout (logger is None)
TLogExhausted(t) ==
    /\ c_pc[t] = "except"
    /\ Caught(c_calls[t][Len(c_calls[t])].exc, c_exceptions[t])
    /\ IsLastAttempt(c_attempt[Frame(t)], c_max_retries[t])
    /\ c_lines' = c_lines + 1
    /\ c_pc' = [c_pc EXCEPT ![t] = "reraise"]
    /\ UNCHANGED <<seq_and_scrape, c_max_retries, c_exceptions, c_calls,
                   c_sleeps, c_outcome, c_attempt, c_e, c_delay, c_rng>>

\* line 51: raise
TReraise(t) ==
    /\ c_pc[t] = "reraise"
    /\ c_outcome' = [c_outcome EXCEPT
                        ![t] = [kind |-> "raise", exc |-> c_e[Frame(t)],
                                line |-> 51]]
    /\ c_pc' = [c_pc EXCEPT ![t] = "done"]
    /\ UNCHANGED <<seq_and_scrape, c_max_retries, c_exceptions, c_calls,
                   c_sleeps, c_attempt, c_e, c_delay, c_rng, c_lines>>

\* lines 53-63: the delay, jittered by the next number of the generator the
\* threads share, and the warning on stdout
TLogRetry(t) ==
    /\ c_pc[t] = "except"
    /\ Caught(c_calls[t][Len(c_calls[t])].exc, c_exceptions[t])
    /\ ~IsLastAttempt(c_attempt[Frame(t)], c_max_retries[t])
    /\ c_delay' = [c_delay EXCEPT
                      ![Frame(t)] = ComputeDelay(RawDelay(c_attempt[Frame(t)], 1, 30),
                                                 TRUE, c_rng)]
    /\ c_rng' = (c_rng + 1) % RandomSteps
    /\ c_lines' = c_lines + 1
    /\ c_pc' = [c_pc EXCEPT ![t] = "sleep"]
    /\ UNCHANGED <<seq_and_scrape, c_max_retries, c_exceptions, c_calls,
                   c_sleeps, c_outcome, c_attempt, c_e>>

\* line 64: time.sleep(delay) suspends the calling thread only
TSleep(t) ==
    /\ c_pc[t] = "sleep"
    /\ c_sleeps' = [c_sleeps EXCEPT ![t] = @ + 1]
    /\ c_pc' = [c_pc EXCEPT ![t] = "incr"]
    /\ UNCHANGED <<seq_and_scrape, c_max_retries, c_exceptions, c_calls,
                   c_outcome, c_attempt, c_e, c_delay, c_rng, c_lines>>

\* line 65: attempt += 1
TIncrement(t) ==
    /\ c_pc[t] = "incr"
    /\ c_attempt' = [c_attempt EXCEPT ![Frame(t)] = @ + 1]
    /\ c_pc' = [c_pc EXCEPT ![t] = "while"]
    /\ UNCHANGED <<seq_and_scrape, c_max_retries, c_exceptions, c_calls,
                   c_sleeps, c_outcome, c_e, c_delay, c_rng, c_lines>>

NextConc ==
    \E t \in Threads :
        \/ TStart(t)
        \/ TLoopEnter(t)
        \/ TLoopExit(t)
        \/ TCallReturns(t)
        \/ TCallRaises(t)
        \/ TPropagate(t)
        \/ TLogExhausted(t)
        \/ TReraise(t)
        \/ TLogRetry(t)
        \/ TSleep(t)
        \/ TIncrement(t)

SpecConc == InitConc /\ [][NextConc]_vars

\* ------------------------------------------------------ derived notions
Done == pc = "done"
Success == Done /\ outcome.kind = "return" /\ outcome.line = 42
NonRetryable == Done /\ outcome.kind = "raise" /\ outcome.line = 42
Exhausted == Done /\ outcome.kind = "raise" /\ outcome.line = 51
Silent == Done /\ outcome.kind = "return" /\ outcome.line # 42

Invocations == Len(calls)
RetryableFailure(c) == c.kind = "raise" /\ IsInstance(c.exc, exceptions)
Rejected(c) == c.kind = "raise" /\ ~IsInstance(c.exc, exceptions)
AllRetryableFailures == \A i \in 1 .. Len(calls) : RetryableFailure(calls[i])

\* messages by kind, whichever sink received them
ErrorsOn(s) == {i \in 1 .. Len(s) : s[i].template = "Max retries reached"}
WarningsOn(s) == {i \in 1 .. Len(s) : s[i].template = "Retrying"}
LoggerAt(level) == {i \in 1 .. Len(log_records) : log_records[i].level = level}
LoggerMsgs == [i \in 1 .. Len(log_records) |-> log_records[i].msg]
NumErrors == Cardinality(LoggerAt("error")) + Cardinality(ErrorsOn(stdout))
NumWarnings == Cardinality(LoggerAt("warning")) + Cardinality(WarningsOn(stdout))

LastCall == calls[Len(calls)]
\* lines 45-50 have run
MaxRetriesLogged == pc = "reraise" \/ Exhausted

\* ---------------------------------------------------------------- C1
\* C1: for max_retries = n >= 0, while every invocation fails with a
\* retryable error the number of invocations never exceeds n + 1, and the
\* call ends only as Exhausted, after exactly n + 1 invocations.
C1_AttemptCount ==
    (max_retries >= 0 /\ AllRetryableFailures) =>
        /\ Invocations <= max_retries + 1
        /\ Done => (Exhausted /\ Invocations = max_retries + 1)

C1_Witness == Exhausted /\ max_retries = 3 /\ Invocations = 4 /\ AllRetryableFailures

\* ---------------------------------------------------------------- C2
\* C2: when the call ends in Success after k retryable failures
\* (k <= max_retries), exactly k + 1 invocations and k sleeps have occurred,
\* the i-th sleep lies between invocations i and i + 1 (so none follows the
\* successful one), the value handed to the caller is the value func
\* returned, falsy or not, and nothing happens after the return.
C2_SuccessState ==
    Success =>
        LET k == Invocations - 1 IN
        /\ k >= 0 /\ k <= max_retries /\ attempt = k
        /\ \A i \in 1 .. k : RetryableFailure(calls[i])
        /\ LastCall.kind = "return"
        /\ outcome.val = LastCall.val
        /\ Len(sleeps) = k
        /\ \A i \in 1 .. k : sleeps[i].after = i

C2_SuccessShortCircuit == [](C2_SuccessState) /\ [][Success => UNCHANGED vars]_vars

C2_Witness ==
    /\ Success /\ Invocations = 3 /\ Len(sleeps) = 2
    /\ outcome.val = "0" /\ max_retries = 4

\* ---------------------------------------------------------------- C3
\* C3: when the exceptions filter rejects the failure of the first
\* invocation, there is exactly 1 invocation, no sleep and no message, and
\* the call ends by surfacing that very exception object (NonRetryable).
C3_FirstFailureRejected ==
    (max_retries >= 0 /\ Invocations >= 1 /\ Rejected(calls[1])) =>
        /\ Invocations = 1
        /\ sleeps = <<>>
        /\ pc \in {"except", "done"}
        /\ Done => (NonRetryable /\ outcome.exc = calls[1].exc)

C3_Witness ==
    /\ NonRetryable /\ Invocations = 1 /\ max_retries = 2
    /\ exceptions = {"ValueError"}
    /\ outcome.exc = [cls |-> "ConnectionError", id |-> 1]

C5_ExhaustionLogged ==
    /\ \A i \in 1 .. Len(log_records) :
          log_records[i].level = "error"
              <=> log_records[i].msg.template = "Max retries reached"
    /\ NumErrors = (IF MaxRetriesLogged THEN 1 ELSE 0)
    /\ Exhausted => NumErrors = 1
    /\ (Success \/ NonRetryable) => NumErrors = 0
    /\ NumErrors >= 1 =>
          /\ Invocations = max_retries + 1
          /\ RetryableFailure(LastCall)
          /\ \A i \in LoggerAt("error") : log_records[i].msg.exc = LastCall.exc
          /\ \A i \in ErrorsOn(stdout) : stdout[i].exc = LastCall.exc

C5_Witness ==
    /\ Exhausted /\ max_retries = 1 /\ logger = "Logger"
    /\ Len(log_records) = 2 /\ log_records[2].level = "error"

\* ---------------------------------------------------------------- C6
\* C6: the i-th sleep follows the failure of attempt a = i - 1 <=
\* max_retries - 1; the delay computed before jitter is
\* min(max_delay, base_delay * 2^a); without jitter the delay slept is that
\* value exactly, with jitter it lies in [raw / 2, raw] for every draw.
C6_BackoffBound ==
    /\ Len(raw_delays) \in {Len(sleeps), Len(sleeps) + 1}
    /\ \A i \in 1 .. Len(raw_delays) :
          raw_delays[i] = (IF base_delay * 2 ^ (i - 1) <= max_delay
                             THEN base_delay * 2 ^ (i - 1) ELSE max_delay)
    /\ \A i \in 1 .. Len(sleeps) :
          LET a == sleeps[i].attempt
              d == sleeps[i].delay
              raw == raw_delays[i]
          IN  /\ a = i - 1 /\ a <= max_retries - 1
              /\ d.den > 0
              /\ ~jitter => d = [num |-> raw, den |-> 1]
              /\ jitter => (raw * d.den <= 2 * d.num /\ d.num <= raw * d.den)

C6_Witness ==
    /\ jitter /\ Len(sleeps) = 3 /\ base_delay = 10 /\ max_delay = 15
    /\ raw_delays = <<10, 15, 15>>
    /\ 2 * sleeps[1].delay.num = 10 * sleeps[1].delay.den
    /\ sleeps[2].delay.num * 2 > 15 * sleeps[2].delay.den

\* ---------------------------------------------------------------- C7
\* C7: with max_retries = 0 and func failing with a retryable error, there
\* is exactly one invocation, no sleep and no warning message; the single
\* "Max retries reached" message is emitted before the exception reaches
\* the caller, and the call ends in Exhausted.
C7_NoRetries ==
    (max_retries = 0 /\ AllRetryableFailures) =>
        /\ Invocations <= 1
        /\ sleeps = <<>>
        /\ NumWarnings = 0
        /\ pc = "reraise" => NumErrors = 1
        /\ Done => /\ Exhausted
                   /\ Invocations = 1
                   /\ NumErrors = 1
                   /\ Len(log_records) + Len(stdout) = 1

C7_Witness ==
    /\ max_retries = 0 /\ Exhausted /\ Invocations = 1 /\ logger = "None"
    /\ stdout = <<MaxRetriesMsg("fetch_data", [cls |-> "ConnectionError", id |-> 1])>>

\* ---------------------------------------------------------------- C8
\* C8: without jitter, a run that ends in Success after f retryable failures
\* has slept exactly min(max_delay, base_delay * 2^0), ...,
\* min(max_delay, base_delay * 2^(f-1)) in that order and has made f + 1
\* invocations; base_delay = 1, max_delay = 30, max_retries = 5, f = 3 gives
\* the delays 1, 2, 4 and four invocations.
C8_DelaySequence ==
    (~jitter /\ Success) =>
        LET f == Invocations - 1 IN
        /\ f <= max_retries
        /\ \A i \in 1 .. f : RetryableFailure(calls[i])
        /\ Len(sleeps) = f
        /\ \A i \in 1 .. f :
              sleeps[i].delay =
                  [num |-> IF base_delay * 2 ^ (i - 1) <= max_delay
                             THEN base_delay * 2 ^ (i - 1) ELSE max_delay,
                   den |-> 1]
        /\ (base_delay = 1 /\ max_delay = 30 /\ max_retries = 5 /\ f = 3) =>
              /\ [i \in 1 .. 3 |-> sleeps[i].delay.num] = <<1, 2, 4>>
              /\ Invocations = 4

C8_Witness ==
    /\ ~jitter /\ Success /\ base_delay = 1 /\ max_delay = 30 /\ max_retries = 5
    /\ Invocations = 4
    /\ sleeps = <<[attempt |-> 0, after |-> 1, delay |-> [num |-> 1, den |-> 1]],
                  [attempt |-> 1, after |-> 2, delay |-> [num |-> 2, den |-> 1]],
                  [attempt |-> 2, after |-> 3, delay |-> [num |-> 4, den |-> 1]]>>

\* ---------------------------------------------------------------- C9
\* C9: when every invocation fails with a retryable error (max_retries >= 0),
\* the run ends in Exhausted having computed and slept exactly max_retries
\* delays, the raw delay being max_delay wherever base_delay * 2^a exceeds
\* it, with attempt + 1 = max_retries + 1 = the number of invocations;
\* base_delay = 10, max_delay = 15, max_retries = 3 gives raw delays
\* 10, 15, 15 and 4 attempts.
C9_ClampScenario ==
    (Done /\ max_retries >= 0 /\ AllRetryableFailures) =>
        /\ Exhausted
        /\ Len(raw_delays) = max_retries
        /\ Len(sleeps) = max_retries
        /\ \A i \in 1 .. max_retries :
              /\ base_delay * 2 ^ (i - 1) > max_delay => raw_delays[i] = max_delay
              /\ base_delay * 2 ^ (i - 1) <= max_delay
                    => raw_delays[i] = base_delay * 2 ^ (i - 1)
        /\ attempt + 1 = max_retries + 1
        /\ Invocations = attempt + 1
        /\ (base_delay = 10 /\ max_delay = 15 /\ max_retries = 3) =>
              (raw_delays = <<10, 15, 15>> /\ Invocations = 4)

C9_Witness ==
    /\ Exhausted /\ base_delay = 10 /\ max_delay = 15 /\ max_retries = 3
    /\ raw_delays = <<10, 15, 15>> /\ Invocations = 4 /\ attempt = 3

\* --------------------------------------------------------------- C10
\* the messages lines 45-46 and 58-59 have built so far, in order
DelaySlept(i) == IF i <= Len(sleeps) THEN sleeps[i].delay ELSE delay
ExpectedMsgs ==
    LET warnings == [i \in 1 .. Len(raw_delays) |->
                        [template |-> "Retrying", attempt_no |-> i,
                         func_name |-> func, exc |-> calls[i].exc,
                         delay_text |-> Format2f(DelaySlept(i))]]
    IN  IF MaxRetriesLogged
          THEN Append(warnings, [template |-> "Max retries reached",
                                 func_name |-> func, exc |-> LastCall.exc])
          ELSE warnings

\* C10: in every state, the messages built so far have each been emitted
\* exactly once, in order and with the same content, on logger (warning or
\* error method) when a logger was supplied and on print otherwise, and the
\* other sink has received nothing.
C10_OneSink ==
    /\ logger # "None" => (LoggerMsgs = ExpectedMsgs /\ stdout = <<>>)
    /\ logger = "None" => (stdout = ExpectedMsgs /\ log_records = <<>>)
    /\ \A i \in 1 .. Len(log_records) :
          log_records[i].level =
              (IF log_records[i].msg.template = "Retrying" THEN "warning" ELSE "error")

C10_Witness ==
    /\ logger = "None" /\ Exhausted /\ max_retries = 2 /\ jitter
    /\ Len(stdout) = 3 /\ log_records = <<>>
    /\ base_delay = 1 /\ stdout[2].delay_text = 133

\* --------------------------------------------------------------- C11
\* the interpreter keeps running the call: func() and time.sleep() return
FairSpec == Spec /\ WF_vars(Next)

\* every call ends, whatever its arguments
C11_Terminates == <>Done

\* C11: a call that has ended has ended in exactly one of Success,
\* NonRetryable and Exhausted, after at most max_retries + 1 invocations.
C11_ThreeOutcomes ==
    Done =>
        /\ Success \/ NonRetryable \/ Exhausted
        /\ ~(Success /\ NonRetryable) /\ ~(Success /\ Exhausted)
        /\ ~(NonRetryable /\ Exhausted)
        /\ Invocations <= max_retries + 1

\* --------------------------------------------------------------- C12
\* C12: a call made with max_retries < 0 does not end with a normal return
\* to the caller (it is rejected before the loop starts).
C12_NegativeRejected == (Done /\ max_retries < 0) => outcome.kind # "return"

\* --------------------------------------------------------------- C14
\* delay d1 <= delay d2, as rationals
DelayLeq(d1, d2) == d1.num * d2.den <= d2.num * d1.den

\* C14 as stated: with jitter, each delay slept is at least the one before.
C14_JitterMonotone ==
    jitter => \A i \in 1 .. Len(sleeps) - 1 :
                  DelayLeq(sleeps[i].delay, sleeps[i + 1].delay)

\* C14 amended: with jitter, the delay slept after attempt a + 1 is at least
\* the delay slept after attempt a whenever the raw delay of attempt a + 1
\* is not clamped, i.e. base_delay * 2^(a+1) <= max_delay.
C14_JitterMonotoneUnclamped ==
    jitter => \A i \in 1 .. Len(sleeps) - 1 :
                  base_delay * 2 ^ i <= max_delay
                      => DelayLeq(sleeps[i].delay, sleeps[i + 1].delay)

C14_Witness ==
    /\ jitter /\ base_delay = 1 /\ max_delay = 30 /\ Len(sleeps) >= 2
    /\ sleeps[1].delay = [num |-> 1 * (2 * RandomSteps - 1), den |-> 2 * RandomSteps]
    /\ sleeps[2].delay = [num |-> 2 * RandomSteps, den |-> 2 * RandomSteps]

\* --------------------------------------------------------------- C15
\* the state of the machine of the design that a program state stands for
AbsState ==
    CASE pc = "ready" -> "Ready"
      [] pc \in {"while", "call"} -> "Attempting"
      [] pc = "except" -> "Classifying"
      [] pc \in {"sleep", "incr"} -> "Waiting"
      [] pc = "reraise" -> "ExhaustedTerminal"
      [] Success -> "Success"
      [] NonRetryable -> "NonRetryableTerminal"
      [] Exhausted -> "ExhaustedTerminal"
      [] OTHER -> "ReturnedNone"

MachineSteps ==
    {<<"Ready", "Attempting">>, <<"Attempting", "Success">>,
     <<"Attempting", "Classifying">>, <<"Classifying", "NonRetryableTerminal">>,
     <<"Classifying", "ExhaustedTerminal">>, <<"Classifying", "Waiting">>,
     <<"Waiting", "Attempting">>}

\* C15: every step of the call either leaves the machine state unchanged or
\* is a transition of the machine, Classifying -> ExhaustedTerminal being
\* taken exactly when attempt = max_retries and Classifying -> Waiting
\* otherwise.
C15_RefinesMachine ==
    [][\/ AbsState' = AbsState
       \/ /\ <<AbsState, AbsState'>> \in MachineSteps
          /\ AbsState' = "ExhaustedTerminal" => attempt = max_retries
          /\ AbsState' = "Waiting" => attempt # max_retries]_vars

\* --------------------------------------------------------------- C17
\* C17: after a retryable failure on an attempt a < max_retries the call
\* emits one warning (pc = "sleep": warnings = a + 1, sleeps = a), then
\* sleeps once (pc = "incr": sleeps = a + 1), then increments attempt and
\* invokes func again; the i-th sleep lies between invocations i and i + 1,
\* and nothing is handed to the caller while retries go on.
C17_State ==
    /\ pc \in {"while", "call", "except"} =>
          (NumWarnings = attempt /\ Len(sleeps) = attempt)
    /\ pc = "sleep" =>
          /\ NumWarnings = attempt + 1 /\ Len(sleeps) = attempt
          /\ attempt < max_retries /\ RetryableFailure(LastCall)
          /\ Invocations = attempt + 1
    /\ pc = "incr" =>
          /\ NumWarnings = attempt + 1 /\ Len(sleeps) = attempt + 1
          /\ sleeps[attempt + 1].delay = delay
          /\ Invocations = attempt + 1
    /\ \A i \in 1 .. Len(sleeps) : sleeps[i].after = i /\ sleeps[i].attempt = i - 1
    /\ pc # "done" => outcome = NoOutcome

C17_AbsorbedInOrder ==
    /\ [](C17_State)
    /\ [][/\ Len(sleeps') # Len(sleeps) => (pc = "sleep" /\ pc' = "incr")
          /\ pc = "sleep" => (pc' = "incr" /\ Len(sleeps') = Len(sleeps) + 1)
          /\ pc = "incr" => (pc' = "while" /\ attempt' = attempt + 1)
          /\ (pc = "while" /\ attempt > 0) => pc' = "call"]_vars

C17_Witness ==
    /\ pc = "call" /\ attempt = 2 /\ Invocations = 2 /\ Len(sleeps) = 2
    /\ NumWarnings = 2 /\ max_retries = 4

\* --------------------------------------------------------------- C18
\* C18: when max_delay < base_delay, every delay computed before jitter
\* equals max_delay.
C18_DegradesToMaxDelay ==
    max_delay < base_delay =>
        \A i \in 1 .. Len(raw_delays) : raw_delays[i] = max_delay

C18_Witness ==
    /\ base_delay = 10 /\ max_delay = 4 /\ raw_delays = <<4, 4, 4>>
    /\ Len(sleeps) = 3

\* --------------------------------------------------------------- C19
\* C19: the exceptions filter is applied to the failure of every
\* invocation: once an invocation raises an exception the filter rejects,
\* after k retryable failures, the call ends in NonRetryable with k + 1
\* invocations, k sleeps, k warnings, no "Max retries reached" message, and
\* the rejected exception object is what the caller receives.
C19_RejectedAtAnyAttempt ==
    /\ (Invocations >= 1 /\ Rejected(LastCall)) =>
          /\ pc \in {"except", "done"}
          /\ Done => NonRetryable
          /\ LET k == Invocations - 1 IN
              /\ k <= max_retries /\ attempt = k
              /\ \A i \in 1 .. k : RetryableFailure(calls[i])
              /\ Len(sleeps) = k
              /\ NumWarnings = k
              /\ NumErrors = 0
    /\ NonRetryable => (Rejected(LastCall) /\ outcome.exc = LastCall.exc)

C19_Witness ==
    /\ NonRetryable /\ Invocations = 3 /\ Len(sleeps) = 2 /\ NumWarnings = 2
    /\ exceptions = {"Exception"}
    /\ outcome.exc = [cls |-> "KeyboardInterrupt", id |-> 3]

\* --------------------------------------------------------------- C20
\* how attempt moves: only by + 1, at line 65, right after a sleep
AttemptSteps ==
    [][attempt' # attempt =>
          /\ attempt' = attempt + 1
          /\ pc = "incr"
          /\ Len(sleeps) = attempt + 1]_vars

\* C20 as stated: in every state of a run with max_retries >= 0,
\* 0 <= attempt <= max_retries, sleeps = warnings = attempt, and
\* invocations <= attempt + 1.
C20_CountsEqualAttempt ==
    max_retries >= 0 =>
        /\ 0 <= attempt /\ attempt <= max_retries
        /\ Len(sleeps) = NumWarnings /\ NumWarnings = attempt
        /\ Invocations <= attempt + 1

\* C20 amended: in every state of a run with max_retries >= 0,
\* 0 <= attempt <= max_retries, attempt moves only by + 1 right after a
\* sleep, invocations <= attempt + 1, and
\* attempt <= sleeps <= warnings <= attempt + 1, with
\* sleeps = warnings = attempt whenever control is at the loop test, at the
\* invocation of func or at the except clause.
C20_State ==
    max_retries >= 0 =>
        /\ 0 <= attempt /\ attempt <= max_retries
        /\ attempt <= Len(sleeps) /\ Len(sleeps) <= NumWarnings
        /\ NumWarnings <= attempt + 1
        /\ pc \in {"while", "call", "except"} =>
              (Len(sleeps) = attempt /\ NumWarnings = attempt)
        /\ Invocations <= attempt + 1

C20_AttemptInvariant == [](C20_State) /\ AttemptSteps

C20_Witness ==
    /\ pc = "sleep" /\ max_retries = 3 /\ attempt = 1
    /\ NumWarnings = 2 /\ Len(sleeps) = 1

\* --------------------------------------------------------------- C16
\* the distinct ticker-like texts of the page
PageSymbols ==
    {tk_page[j].text : j \in {i \in 1 .. Len(tk_page) :
        /\ tk_page[i].text \in AllSyms
        /\ tk_page[i].len <= 5 /\ tk_page[i].isupper /\ tk_page[i].isalpha}}

\* C16: a call of get_ndaq_tickers that has ended has returned a list (it
\* raised nothing): the list of the page's distinct ticker texts in
\* ascending order when the fetch and the parse succeeded and there are
\* between 80 and 120 of them, and the hardcoded fallback list otherwise.
C16_ScrapedOrFallback ==
    tk_pc = "done" =>
        /\ tk_result.kind = "return"
        /\ LET n == Cardinality(PageSymbols)
               val == tk_result.val
           IN  IF tk_env = "ok" /\ n >= 80 /\ n <= 120
                 THEN /\ Len(val) = n
                      /\ {val[j] : j \in 1 .. Len(val)} = PageSymbols
                      /\ \A j \in 1 .. Len(val) - 1 : Code(val[j]) < Code(val[j + 1])
                 ELSE val = NdaqFallback

C16_Witness ==
    /\ tk_pc = "done" /\ tk_env = "ok" /\ Len(tk_page) = 247
    /\ Len(tk_result.val) = 120 /\ tk_result.val[1] = Sym(0)
    /\ tk_page[8].text = Sym(119)

\* --------------------------------------------------------------- C13
\* Lines 39-65 run by one caller alone on the results func gives in turn,
\* from attempt a after n invocations and k sleeps: the attempt counter,
\* the numbers of invocations and sleeps and the outcome at the end.
RECURSIVE AloneFrom(_, _, _, _, _, _)
AloneFrom(results, a, n, k, m, excs) ==
    IF ~LoopCond(a, m)
      THEN [attempt |-> a, invocations |-> n, sleeps |-> k,
            outcome |-> [kind |-> "return", val |-> "None", line |-> 65]]
    ELSE IF n + 1 > Len(results)
      THEN [attempt |-> a, invocations |-> n, sleeps |-> k, outcome |-> NoOutcome]
    ELSE LET r == results[n + 1] IN
      IF r.kind = "return"
        THEN [attempt |-> a, invocations |-> n + 1, sleeps |-> k,
              outcome |-> [kind |-> "return", val |-> r.val, line |-> 42]]
      ELSE IF ~IsInstance(r.exc, excs)
        THEN [attempt |-> a, invocations |-> n + 1, sleeps |-> k,
              outcome |-> [kind |-> "raise", exc |-> r.exc, line |-> 42]]
      ELSE IF a = m
        THEN [attempt |-> a, invocations |-> n + 1, sleeps |-> k,
              outcome |-> [kind |-> "raise", exc |-> r.exc, line |-> 51]]
      ELSE AloneFrom(results, a + 1, n + 1, k + 1, m, excs)

Alone(results, m, excs) == AloneFrom(results, 0, 0, 0, m, excs)

\* what thread t's call has come to
Observed(t) ==
    [attempt |-> c_attempt[Frame(t)], invocations |-> Len(c_calls[t]),
     sleeps |-> c_sleeps[t], outcome |-> c_outcome[t]]

C13_State ==
    \A t \in Threads :
        c_pc[t] = "done" =>
            Observed(t) = Alone(c_calls[t], c_max_retries[t], c_exceptions[t])

\* a step that is not thread t's leaves what thread t has come to as it is
C13_Steps ==
    [][\A t \in Threads :
          c_pc'[t] = c_pc[t] => Observed(t)' = Observed(t)]_vars

\* C13: in every interleaving of two calls on two threads, each call ends
\* with the attempt counter, the number of invocations, the number of
\* sleeps and the outcome it would have running alone on the same results
\* of func, and no step of one thread changes these for the other.
C13_NoSharedState == [](C13_State) /\ C13_Steps

\* thread 1 has exhausted its two retries, with thread 2 asleep in its
\* first retry, its delay jittered by the generator's second number
C13_Witness ==
    /\ c_pc[1] = "done" /\ c_outcome[1].kind = "raise" /\ c_outcome[1].line = 51
    /\ c_attempt[1] = 2 /\ c_sleeps[1] = 2 /\ Len(c_calls[1]) = 3
    /\ c_pc[2] = "incr" /\ c_attempt[2] = 0 /\ c_sleeps[2] = 1
    /\ c_max_retries[2] = 1
    /\ c_delay[1] = Jitter(2, 2) /\ c_delay[2] = Jitter(1, 1)

====
